---- MODULE Spec2Model ----
(***************************************************************************)
(* The confession service of server.ts: the local SQLite table             *)
(* "confessions" behind GET/POST /api/confessions and                      *)
(* POST /api/confessions/:id/like, and the Supabase mirror table           *)
(* "Confession" behind /api/supabase/messages, together with the client    *)
(* code of App.tsx that talks to the mirror.                               *)
(*                                                                         *)
(* The local handlers are synchronous (better-sqlite3 has no await), so    *)
(* each one is a single atomic step.  The mirror handlers await the        *)
(* external service, so each is split at its await.                        *)
(***************************************************************************)
EXTENDS Integers, Sequences, FiniteSets, TLC

VARIABLES
    db,               \* rows of table confessions, in rowid order
    sqlite_sequence,  \* AUTOINCREMENT bookkeeping: largest rowid ever issued
    now,              \* the wall clock CURRENT_TIMESTAMP reads, in seconds
    req,              \* the request the last local handler ran on
    res,              \* the response that handler sent
    issued,           \* history: ids answered by successful creates, in order
    likesDone,        \* history: like requests answered 200, per id named
    likesSince,       \* history: those of them handled while the row existed
    supabaseConfigured, \* SUPABASE_URL and SUPABASE_ANON_KEY are both set
    mirror,           \* rows of the external table Confession
    mirrorSeq,        \* the external table's identity counter
    supabaseMessages, \* per client: the mirror list it last fetched
    call,             \* per client: its mirror request in flight
    mirrorLikes,      \* history: mirror like requests applied, per id
    env,              \* process.env: which of the mirror's credentials are set
    supabaseStatus,   \* the last answer of GET /api/supabase/status
    session,          \* per client: the cookie-session cookie its browser holds
    hour,             \* the clock the cookie's expiry is measured on, in hours
    auth,             \* per client: its request to the Spotify bridge in flight
    bridgeRes,        \* per client: the last answer of a bridge route
    upstream,         \* history: the calls made to Spotify
    urlRequested,     \* history: per client, GET /api/auth/spotify/url was served
    confessions,      \* App state: the local list the browser last fetched
    newConfession,    \* App state: the composer's text
    composer,         \* App state: recipient, sender, feeling, song, selectedCategory
    viewMode,         \* App state: the active data source, 'local' or 'supabase'
    isSubmitting,     \* App state: a submission is under way
    submit,           \* handleSubmit's position: idle, or the branch it awaits in
    localCall,        \* the browser's request to a local route in flight
    submitted,        \* history: what handleSubmit found when it last started
    filter,           \* App state: the category the feed is filtered by
    text,             \* the text prop HighlightedText is rendered with
    playerSong,       \* the song prop SpotifyPlayer is rendered with
    campusMood,       \* App state: the cached mood summary, or Null
    isAnalyzingMood,  \* App state: a mood summary is being asked for
    moodCall,         \* analyzeMood's position: idle, or awaiting the model's answer
    moodAsked,        \* history: clicks on the mood button and requests they made
    likeCall          \* the browser's like request in flight

localVars == <<db, sqlite_sequence, now, req, res, issued, likesDone, likesSince>>
mirrorVars == <<supabaseConfigured, mirror, mirrorSeq, supabaseMessages, call, mirrorLikes>>
configVars == <<env, supabaseStatus>>
bridgeVars == <<session, hour, auth, bridgeRes, upstream, urlRequested>>
appVars == <<confessions, newConfession, composer, viewMode, isSubmitting, submit,
            localCall, submitted>>
renderVars == <<filter, text, playerSong>>
pageVars == <<campusMood, isAnalyzingMood, moodCall, moodAsked, likeCall>>
extVars == <<configVars, bridgeVars, appVars, renderVars, pageVars>>
vars == <<db, sqlite_sequence, now, req, res, issued, likesDone, likesSince,
          supabaseConfigured, mirror, mirrorSeq, supabaseMessages, call, mirrorLikes,
          env, supabaseStatus, session, hour, auth, bridgeRes, upstream, urlRequested,
          confessions, newConfession, composer, viewMode, isSubmitting, submit,
          localCall, submitted, filter, text, playerSong,
          campusMood, isAnalyzingMood, moodCall, moodAsked, likeCall>>

---------------------------------------------------------------------------
(* Bounds of the model *)

MaxRows == 2     \* successful creates in one run
MaxTime == 1     \* seconds the clock advances
MaxLikes == 2    \* like requests handled in one run
MaxMessages == 1 \* rows created in the mirror table
MaxMirrorLikes == 2  \* mirror likes applied in one run
MaxHour == 36    \* hours the session clock runs
MaxFeed == 3     \* records in a list the filter is applied to
MaxPieces == 3   \* pieces a highlighted text is put together from
MaxMoodCalls == 2  \* clicks on the mood button
MaxWrites == 1   \* records and likes added to the two stores while one browser is open

(* Program constants *)

ListLimit == 50  \* LIMIT 50 of the list query
MoodSample == 10  \* confessions.slice(0, 10)
SessionMaxAge == 24  \* maxAge: 24 * 60 * 60 * 1000 ms, in hours
MinContent == 5  \* content.length < 5 is rejected

---------------------------------------------------------------------------
(* JSON and SQL values.  A body field that is absent (or JSON null) is     *)
(* Undefined; a column holding SQL NULL is Null.  Both are falsy in        *)
(* JavaScript, as is the empty string.                                     *)

Undefined == "<undefined>"
Null == "<null>"

Falsy(x) == x \in {Undefined, Null, ""}

\* the expression  x ?? d, which keeps the empty string
OrElseNullish(x, d) == IF x \in {Undefined, Null} THEN d ELSE x

\* the JavaScript expression  x || d
OrElse(x, d) == IF Falsy(x) THEN d ELSE x

CATEGORIES == {"General", "Love", "Rant", "Academic", "Secret", "Funny"}

Body(content, category, recipient, sender, feeling, song) ==
    [content |-> content, category |-> category, recipient |-> recipient,
     sender |-> sender, feeling |-> feeling, song |-> song]

NoBody == Body(Undefined, Undefined, Undefined, Undefined, Undefined, Undefined)

\* Request bodies a create can receive: content absent, empty, of four
\* characters, of five and longer; category absent, listed and not listed;
\* optional fields absent, empty and set.  Every field is text or absent.
Bodies ==
    { NoBody,
      Body("", "Love", "Ann", Undefined, Undefined, Undefined),
      Body("abcd", "Love", "Ann", "Bob", "Happy", "Perfect"),
      Body("hello", Undefined, Undefined, "", Undefined, ""),
      Body("hello", "Other", Undefined, Undefined, Undefined, Undefined),
      Body("I miss you so much", "Love", "Ann", "Bob", "Happy", "Perfect") }

\* The :id path parameter arrives as text.
IdParams == {ToString(i) : i \in 1..MaxRows} \cup {"1.0", "abc"}

\* WHERE id = ? with a text parameter: the INTEGER column's affinity turns
\* text that reads as an integer into that integer; other text matches no row.
ParamRowid(p) ==
    IF \E i \in 1..MaxRows : p \in {ToString(i), ToString(i) \o ".0"}
    THEN CHOOSE i \in 1..MaxRows : p \in {ToString(i), ToString(i) \o ".0"}
    ELSE 0

Ids == {db[i].id : i \in 1..Len(db)}

Row(id) == db[CHOOSE i \in 1..Len(db) : db[i].id = id]

\* a confession of an earlier day
SeedRow(i) ==
    [id |-> i, content |-> "hello", category |-> "General", recipient |-> Null,
     sender |-> Null, feeling |-> Null, song |-> Null, timestamp |-> 0, likes |-> 0]

Response(op, status, id, body) == [op |-> op, status |-> status, id |-> id, body |-> body]

Request(op, body, id) == [op |-> op, body |-> body, id |-> id]

---------------------------------------------------------------------------
(* The store *)

MaxOf(S) == CHOOSE m \in S : \A x \in S : x <= m

\* a rowid counter that hands out the largest rowid again
NextRowidReused == MaxOf(Ids \cup {sqlite_sequence, 1})

\* INTEGER PRIMARY KEY AUTOINCREMENT: one more than the largest rowid the
\* table ever held.
NextRowid == MaxOf(Ids \cup {sqlite_sequence}) + 1

\* INSERT INTO confessions (...) VALUES (?, ?, ?, ?, ?, ?) with the defaults
\* of the schema for timestamp and likes.
InsertRow(content, category, recipient, sender, feeling, song) ==
    [id |-> NextRowid, content |-> content, category |-> category,
     recipient |-> recipient, sender |-> sender, feeling |-> feeling,
     song |-> song, timestamp |-> now, likes |-> 0]

\* an UPDATE that lost its WHERE clause
UpdateLikesEveryRow(rowid) ==
    [i \in 1..Len(db) |-> [db[i] EXCEPT !.likes = @ + 1]]

\* UPDATE confessions SET likes = likes + 1 WHERE id = ?
UpdateLikes(rowid) ==
    [i \in 1..Len(db) |->
        IF db[i].id = rowid THEN [db[i] EXCEPT !.likes = @ + 1] ELSE db[i]]

\* ORDER BY timestamp ASC
BeforeAscending(a, b, tie) ==
    \/ a.timestamp < b.timestamp
    \/ /\ a.timestamp = b.timestamp
       /\ IF tie = "asc" THEN a.id < b.id ELSE a.id > b.id

\* ORDER BY timestamp DESC.  Rows with equal timestamps come in an order SQL
\* leaves open; tie is the order the engine picks among them ("asc", by
\* ascending rowid, is what SQLite's sorter under a LIMIT produces).
Before(a, b, tie) ==
    \/ a.timestamp > b.timestamp
    \/ /\ a.timestamp = b.timestamp
       /\ IF tie = "asc" THEN a.id < b.id ELSE a.id > b.id

Min(a, b) == IF a < b THEN a ELSE b

\* the sorted run built so far with row r put in its place
RECURSIVE InsertSorted(_, _, _)
InsertSorted(sorted, r, tie) ==
    IF sorted = <<>> THEN <<r>>
    ELSE IF Before(sorted[Len(sorted)], r, tie) THEN Append(sorted, r)
    ELSE Append(InsertSorted(SubSeq(sorted, 1, Len(sorted) - 1), r, tie), sorted[Len(sorted)])

RECURSIVE SortRows(_, _)
SortRows(n, tie) ==
    IF n = 0 THEN <<>> ELSE InsertSorted(SortRows(n - 1, tie), db[n], tie)

\* SELECT * FROM confessions ORDER BY timestamp DESC LIMIT 50
SelectRecent(tie) ==
    SubSeq(SortRows(Len(db), tie), 1, Min(Len(db), ListLimit))

---------------------------------------------------------------------------
(* The local handlers.  ok = FALSE is the statement throwing. *)

\* a check that forgot the length
InvalidOnlyWhenEmpty(content) == Falsy(content)

\* !content || content.length < 5
Invalid(content) == Falsy(content) \/ Len(content) < MinContent

\* GET /api/confessions
ListRoute(ok, tie) ==
    /\ req' = Request("list", NoBody, "")
    /\ res' = IF ok THEN Response("list", 200, 0, SelectRecent(tie))
                    ELSE Response("list", 500, 0, <<>>)
    /\ UNCHANGED <<db, sqlite_sequence, now, issued, likesDone, likesSince>>

\* a create that runs its INSERT a second time when the first one throws
CreateRouteRetrying(body, ok) ==
    /\ req' = Request("create", body, "")
    /\ IF Invalid(body.content)
       THEN /\ res' = Response("create", 400, 0, <<>>)
            /\ UNCHANGED <<db, sqlite_sequence, issued>>
       ELSE LET row == InsertRow(body.content,
                                 OrElse(body.category, "General"),
                                 OrElse(body.recipient, Null),
                                 OrElse(body.sender, Null),
                                 OrElse(body.feeling, Null),
                                 OrElse(body.song, Null))
            IN /\ db' = Append(db, row)
               /\ sqlite_sequence' = row.id
               /\ res' = Response("create", 201, row.id, <<>>)
               /\ issued' = Append(issued, row.id)
    /\ UNCHANGED <<now, likesDone, likesSince>>

\* POST /api/confessions
CreateRoute(body, ok) ==
    /\ req' = Request("create", body, "")
    /\ IF Invalid(body.content)
       THEN /\ res' = Response("create", 400, 0, <<>>)
            /\ UNCHANGED <<db, sqlite_sequence, issued>>
       ELSE IF ok
       THEN LET row == InsertRow(body.content,
                                 OrElse(body.category, "General"),
                                 OrElse(body.recipient, Null),
                                 OrElse(body.sender, Null),
                                 OrElse(body.feeling, Null),
                                 OrElse(body.song, Null))
            IN /\ db' = Append(db, row)
               /\ sqlite_sequence' = row.id
               /\ res' = Response("create", 201, row.id, <<>>)
               /\ issued' = Append(issued, row.id)
       ELSE /\ res' = Response("create", 500, 0, <<>>)
            /\ UNCHANGED <<db, sqlite_sequence, issued>>
    /\ UNCHANGED <<now, likesDone, likesSince>>

\* POST /api/confessions/:id/like
LikeRoute(id, ok) ==
    /\ req' = Request("like", NoBody, id)
    /\ IF ok
       THEN LET rowid == ParamRowid(id)
            IN /\ db' = UpdateLikes(rowid)
               /\ res' = Response("like", 200, 0, <<>>)
               /\ likesDone' = IF rowid \in DOMAIN likesDone
                               THEN [likesDone EXCEPT ![rowid] = @ + 1]
                               ELSE likesDone
               /\ likesSince' = IF rowid \in DOMAIN likesSince /\ rowid \in Ids
                                THEN [likesSince EXCEPT ![rowid] = @ + 1]
                                ELSE likesSince
       ELSE /\ res' = Response("like", 500, 0, <<>>)
            /\ UNCHANGED <<db, likesDone, likesSince>>
    /\ UNCHANGED <<sqlite_sequence, now, issued>>

\* A second passes on the clock CURRENT_TIMESTAMP reads.
Tick ==
    /\ now < MaxTime
    /\ now' = now + 1
    /\ UNCHANGED <<db, sqlite_sequence, req, res, issued, likesDone, likesSince>>

RECURSIVE SumTo(_, _)
SumTo(f, n) == IF n = 0 THEN 0 ELSE f[n] + SumTo(f, n - 1)

\* like requests answered 200 so far, over all ids
LikeCount == SumTo(likesDone, MaxRows)

---------------------------------------------------------------------------
(* The mirror: the external table Confession, reached through the Supabase  *)
(* client.  Each handler awaits the external service once; the service      *)
(* carries out one statement atomically.                                    *)

Clients == {"c1", "c2"}

\* the one browser whose requests a single-caller specification follows
Caller == "c1"

Messages == {"I miss you"}

\* currentLikes missing from the body (or a feed row without a Like)
NoLikes == -1

MirrorIds == 1..(MaxMessages + 1)

Idle == [op |-> "idle", phase |-> "idle", id |-> 0, msg |-> "", currentLikes |-> NoLikes,
         fromFeed |-> FALSE, status |-> 0, data |-> <<>>]

Sent(op, id, msg, currentLikes, fromFeed) ==
    [op |-> op, phase |-> "sent", id |-> id, msg |-> msg, currentLikes |-> currentLikes,
     fromFeed |-> fromFeed, status |-> 0, data |-> <<>>]

Responded(c, status, data) ==
    [call[c] EXCEPT !.phase = "responded", !.status = status, !.data = data]

\* (currentLikes || 0) with 1 forgotten
NewLikeNotAdded(currentLikes) ==
    IF currentLikes = NoLikes \/ currentLikes = 0 THEN 0 ELSE currentLikes

\* (currentLikes || 0) + 1
NewLike(currentLikes) ==
    (IF currentLikes = NoLikes \/ currentLikes = 0 THEN 0 ELSE currentLikes) + 1

\* an update that adds 1 to the stored count
UpdateLikeIncrement(id, currentLikes) ==
    [i \in 1..Len(mirror) |->
        IF mirror[i].id = id THEN [mirror[i] EXCEPT !.Like = @ + 1] ELSE mirror[i]]

\* .update({ Like: (currentLikes || 0) + 1 }).eq('id', id)
UpdateLike(id, currentLikes) ==
    [i \in 1..Len(mirror) |->
        IF mirror[i].id = id THEN [mirror[i] EXCEPT !.Like = NewLike(currentLikes)]
        ELSE mirror[i]]

\* .select() after an update or insert: the rows written
Selected(rows, id) == SelectSeq(rows, LAMBDA r : r.id = id)

\* the feed of client c shows a row with this id and this Like
InFeed(c, id, currentLikes) ==
    \E k \in 1..Len(supabaseMessages[c]) :
        /\ supabaseMessages[c][k].id = id
        /\ supabaseMessages[c][k].Like = currentLikes

MirrorLikeCount == SumTo(mirrorLikes, MaxMessages + 1)

\* fetchSupabaseMessages: GET /api/supabase/messages leaves the client
fetchSupabaseMessages(c) ==
    /\ call[c].phase = "idle"
    /\ call' = [call EXCEPT ![c] = Sent("list", 0, "", NoLikes, FALSE)]
    /\ UNCHANGED <<supabaseConfigured, mirror, mirrorSeq, supabaseMessages, mirrorLikes>>

\* POST /api/supabase/messages with { msg } leaves a caller
PostMessage(c, msg) ==
    /\ call[c].phase = "idle"
    /\ call' = [call EXCEPT ![c] = Sent("create", 0, msg, NoLikes, FALSE)]
    /\ UNCHANGED <<supabaseConfigured, mirror, mirrorSeq, supabaseMessages, mirrorLikes>>

\* handleSupabaseLike(id, currentLikes): POST /api/supabase/messages/:id/like
\* with { currentLikes }.  The feed's button passes (msg.id, msg.Like) of a
\* row the client shows; any other caller is one that sends no count.
handleSupabaseLike(c, id, currentLikes) ==
    /\ call[c].phase = "idle"
    /\ InFeed(c, id, currentLikes) \/ currentLikes = NoLikes
    /\ call' = [call EXCEPT ![c] =
                   Sent("like", id, "", currentLikes, InFeed(c, id, currentLikes))]
    /\ UNCHANGED <<supabaseConfigured, mirror, mirrorSeq, supabaseMessages, mirrorLikes>>

\* A mirror handler up to its await: getSupabase(), then either 503 or the
\* call to the external service.
MirrorRoute(c) ==
    /\ call[c].phase = "sent"
    /\ call' = [call EXCEPT ![c] =
                   IF supabaseConfigured
                   THEN [call[c] EXCEPT !.phase = "awaiting"]
                   ELSE Responded(c, 503, <<>>)]
    /\ UNCHANGED <<supabaseConfigured, mirror, mirrorSeq, supabaseMessages, mirrorLikes>>

\* The external service fails the statement: { error } gives 400, a thrown
\* error gives 500.  Nothing is written.
MirrorFails(c, status) ==
    /\ call[c].phase = "awaiting"
    /\ call' = [call EXCEPT ![c] = Responded(c, status, <<>>)]
    /\ UNCHANGED <<supabaseConfigured, mirror, mirrorSeq, supabaseMessages, mirrorLikes>>

\* .from('Confession').select('*') answers; res.json(data || [])
MirrorListReply(c) ==
    /\ call[c].phase = "awaiting"
    /\ call[c].op = "list"
    /\ call' = [call EXCEPT ![c] = Responded(c, 200, mirror)]
    /\ UNCHANGED <<supabaseConfigured, mirror, mirrorSeq, supabaseMessages, mirrorLikes>>

\* .insert([{ Confession: msg, Like: 0 }]).select() answers; 201 with data[0]
MirrorCreateReply(c) ==
    /\ call[c].phase = "awaiting"
    /\ call[c].op = "create"
    /\ LET row == [id |-> mirrorSeq + 1, Confession |-> call[c].msg, Like |-> 0]
       IN /\ mirror' = Append(mirror, row)
          /\ mirrorSeq' = mirrorSeq + 1
          /\ call' = [call EXCEPT ![c] = Responded(c, 201, <<row>>)]
    /\ UNCHANGED <<supabaseConfigured, supabaseMessages, mirrorLikes>>

\* .update({ Like: ... }).eq('id', id).select() answers; res.json(data[0]),
\* which is an empty 200 when no row has the id
MirrorLikeReply(c) ==
    /\ call[c].phase = "awaiting"
    /\ call[c].op = "like"
    /\ mirror' = UpdateLike(call[c].id, call[c].currentLikes)
    /\ call' = [call EXCEPT ![c] = Responded(c, 200, Selected(mirror', call[c].id))]
    /\ mirrorLikes' = [mirrorLikes EXCEPT ![call[c].id] = @ + 1]
    /\ UNCHANGED <<supabaseConfigured, mirrorSeq, supabaseMessages>>

\* The response reaches the client.  fetchSupabaseMessages stores the rows
\* of an ok answer; handleSupabaseLike fetches the feed again after one.
Receive(c) ==
    /\ call[c].phase = "responded"
    /\ supabaseMessages' =
          IF call[c].op = "list" /\ call[c].status = 200
          THEN [supabaseMessages EXCEPT ![c] = call[c].data]
          ELSE supabaseMessages
    /\ call' = [call EXCEPT ![c] =
                   IF call[c].op = "like" /\ call[c].status = 200
                   THEN Sent("list", 0, "", NoLikes, FALSE)
                   ELSE Idle]
    /\ UNCHANGED <<supabaseConfigured, mirror, mirrorSeq, mirrorLikes>>

\* a client created as soon as either credential is set
HasCredentialsEither(e) == e.SUPABASE_URL \/ e.SUPABASE_ANON_KEY

\* getSupabase: if (url && key) supabaseClient = createClient(url, key)
HasCredentials(e) == e.SUPABASE_URL /\ e.SUPABASE_ANON_KEY

NoStatus == [asked |-> FALSE, configured |-> FALSE, url |-> "", key |-> ""]

\* GET /api/supabase/status
SupabaseStatusRoute ==
    /\ supabaseStatus' =
          [asked |-> TRUE,
           configured |-> supabaseConfigured,
           url |-> IF env.SUPABASE_URL THEN "Set" ELSE "Missing",
           key |-> IF env.SUPABASE_ANON_KEY THEN "Set" ELSE "Missing"]
    /\ UNCHANGED <<env, supabaseConfigured, mirror, mirrorSeq, supabaseMessages, call,
                   mirrorLikes>>

InitMirror ==
    /\ env \in [SUPABASE_URL : BOOLEAN, SUPABASE_ANON_KEY : BOOLEAN]
    /\ supabaseConfigured = HasCredentials(env)
    /\ supabaseStatus = NoStatus
    /\ mirror = <<>>
    /\ mirrorSeq = 0
    /\ supabaseMessages = [c \in Clients |-> <<>>]
    /\ call = [c \in Clients |-> Idle]
    /\ mirrorLikes = [i \in MirrorIds |-> 0]

NextMirror ==
    \/ \E c \in Clients : fetchSupabaseMessages(c) /\ UNCHANGED <<localVars, extVars>>
    \/ \E c \in Clients, msg \in Messages :
          mirrorSeq < MaxMessages /\ PostMessage(c, msg) /\ UNCHANGED <<localVars, extVars>>
    \/ \E c \in Clients, id \in MirrorIds, currentLikes \in {NoLikes} \cup (0..MaxMirrorLikes) :
          /\ MirrorLikeCount < MaxMirrorLikes
          /\ handleSupabaseLike(c, id, currentLikes)
          /\ UNCHANGED <<localVars, extVars>>
    \/ \E c \in Clients : MirrorRoute(c) /\ UNCHANGED <<localVars, extVars>>
    \/ \E c \in Clients, status \in {400, 500} : MirrorFails(c, status) /\ UNCHANGED <<localVars, extVars>>
    \/ \E c \in Clients : MirrorListReply(c) /\ UNCHANGED <<localVars, extVars>>
    \/ \E c \in Clients : mirrorSeq < MaxMessages /\ MirrorCreateReply(c) /\ UNCHANGED <<localVars, extVars>>
    \/ \E c \in Clients :
          MirrorLikeCount < MaxMirrorLikes /\ MirrorLikeReply(c) /\ UNCHANGED <<localVars, extVars>>
    \/ \E c \in Clients : Receive(c) /\ UNCHANGED <<localVars, extVars>>

---------------------------------------------------------------------------
(* The Spotify bridge.  The session lives in a signed cookie: the browser   *)
(* sends it until it expires, maxAge after it was last set, and the server  *)
(* sets it again only when a handler changed the session.                   *)

Tokens == {"t1", "t2"}

NoToken == ""

NoSession == [spotify_token |-> NoToken, setAt |-> 0]

\* a cookie that never expires
CookieAlwaysSent(c) == session[c]

\* req.session of a request from client c: the cookie, unless it has expired
ReqSession(c) ==
    IF session[c].spotify_token # NoToken /\ hour - session[c].setAt < SessionMaxAge
    THEN session[c]
    ELSE NoSession

BridgeIdle == [op |-> "idle", bearer |-> NoToken]

BridgeAnswer(op, status, connected) == [op |-> op, status |-> status, connected |-> connected]

\* a handler that calls upstream whatever the session holds
NotAuthenticatedNever(token) == FALSE

\* if (!token)
NotAuthenticated(token) == token = NoToken

\* GET /api/auth/spotify/url: answers the authorization URL
SpotifyUrlRoute(c) ==
    /\ bridgeRes' = [bridgeRes EXCEPT ![c] = BridgeAnswer("url", 200, FALSE)]
    /\ urlRequested' = [urlRequested EXCEPT ![c] = TRUE]
    /\ UNCHANGED <<session, hour, auth, upstream>>

\* GET /auth/spotify/callback?code= up to its await: the code is posted to
\* Spotify's token endpoint
CallbackRoute(c) ==
    /\ auth[c].op = "idle"
    /\ auth' = [auth EXCEPT ![c] = [op |-> "callback", bearer |-> NoToken]]
    /\ upstream' = upstream \cup {[kind |-> "token", bearer |-> NoToken]}
    /\ UNCHANGED <<session, hour, bridgeRes, urlRequested>>

\* a callback that stores data.access_token before it looks at it
CallbackReplyStoringFirst(c, access_token, thrown) ==
    /\ auth[c].op = "callback"
    /\ auth' = [auth EXCEPT ![c] = BridgeIdle]
    /\ session' = [session EXCEPT ![c] = [spotify_token |-> access_token, setAt |-> hour]]
    /\ bridgeRes' = [bridgeRes EXCEPT ![c] =
                        BridgeAnswer("callback",
                                     IF thrown THEN 500
                                     ELSE IF access_token # NoToken THEN 200 ELSE 400,
                                     FALSE)]
    /\ UNCHANGED <<hour, upstream, urlRequested>>

\* The token endpoint answers.  access_token is a token, or NoToken when the
\* answer carries none; thrown = TRUE is fetch or response.json() throwing.
CallbackReply(c, access_token, thrown) ==
    /\ auth[c].op = "callback"
    /\ auth' = [auth EXCEPT ![c] = BridgeIdle]
    /\ IF thrown
       THEN /\ bridgeRes' = [bridgeRes EXCEPT ![c] = BridgeAnswer("callback", 500, FALSE)]
            /\ UNCHANGED session
       ELSE IF access_token # NoToken
       THEN /\ session' = [session EXCEPT ![c] =
                              IF ReqSession(c).spotify_token = access_token
                              THEN session[c]
                              ELSE [spotify_token |-> access_token, setAt |-> hour]]
            /\ bridgeRes' = [bridgeRes EXCEPT ![c] = BridgeAnswer("callback", 200, FALSE)]
       ELSE /\ bridgeRes' = [bridgeRes EXCEPT ![c] = BridgeAnswer("callback", 400, FALSE)]
            /\ UNCHANGED session
    /\ UNCHANGED <<hour, upstream, urlRequested>>

\* GET /api/spotify/me/top-tracks up to its await
TopTracksRoute(c) ==
    /\ auth[c].op = "idle"
    /\ LET token == ReqSession(c).spotify_token
       IN IF NotAuthenticated(token)
          THEN /\ bridgeRes' = [bridgeRes EXCEPT ![c] = BridgeAnswer("top-tracks", 401, FALSE)]
               /\ UNCHANGED <<auth, upstream>>
          ELSE /\ auth' = [auth EXCEPT ![c] = [op |-> "top-tracks", bearer |-> token]]
               /\ upstream' = upstream \cup {[kind |-> "top-tracks", bearer |-> token]}
               /\ UNCHANGED bridgeRes
    /\ UNCHANGED <<session, hour, urlRequested>>

\* Spotify answers the top-tracks call: res.json(data), or 500 when it throws
TopTracksReply(c, thrown) ==
    /\ auth[c].op = "top-tracks"
    /\ auth' = [auth EXCEPT ![c] = BridgeIdle]
    /\ bridgeRes' = [bridgeRes EXCEPT ![c] =
                        BridgeAnswer("top-tracks", IF thrown THEN 500 ELSE 200, FALSE)]
    /\ UNCHANGED <<session, hour, upstream, urlRequested>>

\* GET /api/auth/spotify/status
SpotifyStatusRoute(c) ==
    /\ bridgeRes' = [bridgeRes EXCEPT ![c] =
                        BridgeAnswer("status", 200, ReqSession(c).spotify_token # NoToken)]
    /\ UNCHANGED <<session, hour, auth, upstream, urlRequested>>

\* Half a day passes.
HoursPass ==
    /\ hour + 12 <= MaxHour
    /\ hour' = hour + 12
    /\ UNCHANGED <<session, auth, bridgeRes, upstream, urlRequested>>

InitBridge ==
    /\ session = [c \in Clients |-> NoSession]
    /\ hour = 0
    /\ auth = [c \in Clients |-> BridgeIdle]
    /\ bridgeRes = [c \in Clients |-> BridgeAnswer("none", 0, FALSE)]
    /\ upstream = {}
    /\ urlRequested = [c \in Clients |-> FALSE]

NextBridge ==
    \/ \E c \in {Caller} : SpotifyUrlRoute(c) /\ UNCHANGED <<localVars, mirrorVars, configVars, appVars, renderVars, pageVars>>
    \/ \E c \in {Caller} : CallbackRoute(c) /\ UNCHANGED <<localVars, mirrorVars, configVars, appVars, renderVars, pageVars>>
    \/ \E c \in {Caller}, t \in Tokens \cup {NoToken}, thrown \in BOOLEAN :
          CallbackReply(c, t, thrown) /\ UNCHANGED <<localVars, mirrorVars, configVars, appVars, renderVars, pageVars>>
    \/ \E c \in {Caller} : TopTracksRoute(c) /\ UNCHANGED <<localVars, mirrorVars, configVars, appVars, renderVars, pageVars>>
    \/ \E c \in {Caller}, thrown \in BOOLEAN :
          TopTracksReply(c, thrown) /\ UNCHANGED <<localVars, mirrorVars, configVars, appVars, renderVars, pageVars>>
    \/ \E c \in {Caller} : SpotifyStatusRoute(c) /\ UNCHANGED <<localVars, mirrorVars, configVars, appVars, renderVars, pageVars>>
    \/ HoursPass /\ UNCHANGED <<localVars, mirrorVars, configVars, appVars, renderVars, pageVars>>

---------------------------------------------------------------------------
(* The browser: the state of App and its handlers.  An async handler is     *)
(* split at its await; the browser follows one request to the local routes  *)
(* and one to the mirror routes at a time.                                   *)

WhiteSpace == {" ", "\n"}

RECURSIVE TrimStart(_)
TrimStart(str) ==
    IF Len(str) > 0 /\ SubSeq(str, 1, 1) \in WhiteSpace THEN TrimStart(Tail(str)) ELSE str

RECURSIVE TrimEnd(_)
TrimEnd(str) ==
    IF Len(str) > 0 /\ SubSeq(str, Len(str), Len(str)) \in WhiteSpace
    THEN TrimEnd(SubSeq(str, 1, Len(str) - 1))
    ELSE str

\* String.prototype.trim
Trim(str) == TrimEnd(TrimStart(str))

\* what the composer's text box is given
ComposerTexts == {"", "      ", "abcd", "I miss you"}

\* useState of recipient, sender, feeling, song, selectedCategory
EmptyComposer ==
    [recipient |-> "", sender |-> "", feeling |-> "Happy", song |-> "",
     selectedCategory |-> "General"]

FilledComposer ==
    [recipient |-> "Ann", sender |-> "Bob", feeling |-> "In Love", song |-> "Perfect",
     selectedCategory |-> "Love"]

LocalIdle == [op |-> "idle", phase |-> "idle", body |-> NoBody, id |-> "", status |-> 0,
              data |-> <<>>]

LocalSent(op, body, id) ==
    [op |-> op, phase |-> "sent", body |-> body, id |-> id, status |-> 0, data |-> <<>>]

\* res.json() of an answer that is no list: { error: ... }, as a list
\* holding that object
ErrorObject == <<[error |-> "Failed to fetch confessions"]>>

\* Response.ok
Ok(status) == status >= 200 /\ status <= 299

\* records and likes the two stores gained since the browser opened: each
\* store held one record then
Writes == (Len(db) - 1) + (Len(mirror) - 1) + LikeCount + MirrorLikeCount

NotSubmitted == [mode |-> "none", text |-> "", rows |-> 0, messages |-> 0]

\* onChange of the composer's text box
setNewConfession(value) ==
    /\ newConfession' = value
    /\ UNCHANGED <<confessions, composer, viewMode, isSubmitting, submit, localCall, submitted>>

\* the composer's other fields are filled in or emptied
setComposer(value) ==
    /\ composer' = value
    /\ UNCHANGED <<confessions, newConfession, viewMode, isSubmitting, submit, localCall,
                   submitted>>

\* onClick of the two data-source buttons
setViewMode(mode) ==
    /\ viewMode' = mode
    /\ UNCHANGED <<confessions, newConfession, composer, isSubmitting, submit, localCall,
                   submitted>>

\* a submission that always goes to the mirror
SubmitsToMirrorAlways(mode) == TRUE

\* if (viewMode === 'supabase')
SubmitsToMirror(mode) == mode = "supabase"

\* handleSubmit up to its await.  The submit button is disabled while
\* isSubmitting; the handler returns at once on a blank or short text.
handleSubmit ==
    /\ ~isSubmitting
    /\ ~(Trim(newConfession) = "" \/ Len(newConfession) < 5)
    /\ isSubmitting' = TRUE
    /\ submitted' = [mode |-> viewMode, text |-> newConfession, rows |-> Len(db),
                     messages |-> Len(mirror)]
    /\ IF SubmitsToMirror(viewMode)
       THEN /\ call[Caller].phase = "idle"
            /\ submit' = "supabase"
            /\ call' = [call EXCEPT ![Caller] = Sent("create", 0, newConfession, NoLikes, FALSE)]
            /\ UNCHANGED localCall
       ELSE /\ localCall.phase = "idle"
            /\ submit' = "local"
            /\ localCall' = LocalSent("create",
                                      Body(newConfession, composer.selectedCategory,
                                           composer.recipient, composer.sender,
                                           composer.feeling, composer.song),
                                      "")
            /\ UNCHANGED call
    /\ UNCHANGED <<confessions, newConfession, composer, viewMode>>
    /\ UNCHANGED <<localVars, supabaseConfigured, mirror, mirrorSeq, supabaseMessages,
                   mirrorLikes>>

\* fetchConfessions up to its await
fetchConfessions ==
    /\ localCall.phase = "idle"
    /\ localCall' = LocalSent("list", NoBody, "")
    /\ UNCHANGED <<confessions, newConfession, composer, viewMode, isSubmitting, submit,
                   submitted>>

\* The server runs the local handler the browser's request names.
LocalServe(ok, tie) ==
    /\ localCall.phase = "sent"
    /\ IF localCall.op = "create"
       THEN CreateRoute(localCall.body, ok)
       ELSE ListRoute(ok, tie)
    /\ localCall' = [localCall EXCEPT
                        !.phase = "responded",
                        !.status = res'.status,
                        !.data = IF res'.status = 200 THEN res'.body ELSE ErrorObject]
    /\ UNCHANGED <<confessions, newConfession, composer, viewMode, isSubmitting, submit,
                   submitted>>

\* fetch rejects: the request to a local route never gets an answer
LocalFetchThrows ==
    /\ localCall.phase = "sent"
    /\ localCall' = [localCall EXCEPT !.phase = "thrown"]
    /\ UNCHANGED <<confessions, newConfession, composer, viewMode, isSubmitting, submit,
                   submitted>>

\* fetch rejects: the request to a mirror route never gets an answer
MirrorFetchThrows(c) ==
    /\ call[c].phase = "sent"
    /\ call' = [call EXCEPT ![c] = Responded(c, 0, <<>>)]
    /\ UNCHANGED <<supabaseConfigured, mirror, mirrorSeq, supabaseMessages, mirrorLikes>>

\* fetchConfessions after its await: setConfessions(data) whatever the
\* status; a rejected fetch is only logged
ReceiveList ==
    /\ localCall.op = "list"
    /\ localCall.phase \in {"responded", "thrown"}
    /\ confessions' = IF localCall.phase = "responded" THEN localCall.data ELSE confessions
    /\ localCall' = LocalIdle
    /\ UNCHANGED <<newConfession, composer, viewMode, isSubmitting, submit, submitted>>

\* a handleSubmit whose setIsSubmitting(false) is the last statement of the
\* try block: a rejected fetch jumps over it
SubmitReplyWithoutFinally ==
    /\ submit # "idle"
    /\ IF submit = "supabase"
       THEN /\ call[Caller].op = "create"
            /\ call[Caller].phase = "responded"
            /\ IF Ok(call[Caller].status)
               THEN /\ newConfession' = ""
                    /\ call' = [call EXCEPT ![Caller] = Sent("list", 0, "", NoLikes, FALSE)]
               ELSE /\ call' = [call EXCEPT ![Caller] = Idle]
                    /\ UNCHANGED newConfession
            /\ isSubmitting' = (call[Caller].status = 0)
            /\ UNCHANGED <<composer, localCall>>
       ELSE /\ localCall.op = "create"
            /\ localCall.phase \in {"responded", "thrown"}
            /\ IF localCall.phase = "responded" /\ Ok(localCall.status)
               THEN /\ newConfession' = ""
                    /\ composer' = [composer EXCEPT !.recipient = "", !.sender = "",
                                                    !.song = ""]
                    /\ localCall' = LocalSent("list", NoBody, "")
               ELSE /\ localCall' = LocalIdle
                    /\ UNCHANGED <<newConfession, composer>>
            /\ isSubmitting' = (localCall.phase = "thrown")
            /\ UNCHANGED call
    /\ submit' = "idle"
    /\ UNCHANGED <<confessions, viewMode, submitted>>
    /\ UNCHANGED <<localVars, supabaseConfigured, mirror, mirrorSeq, supabaseMessages,
                   mirrorLikes>>

\* handleSubmit after its await, in the branch it took: on an ok answer the
\* fields are cleared and the feed is fetched again; finally isSubmitting
\* is false whatever happened.
SubmitReply ==
    /\ submit # "idle"
    /\ IF submit = "supabase"
       THEN /\ call[Caller].op = "create"
            /\ call[Caller].phase = "responded"
            /\ IF Ok(call[Caller].status)
               THEN /\ newConfession' = ""
                    /\ call' = [call EXCEPT ![Caller] = Sent("list", 0, "", NoLikes, FALSE)]
               ELSE /\ call' = [call EXCEPT ![Caller] = Idle]
                    /\ UNCHANGED newConfession
            /\ UNCHANGED <<composer, localCall>>
       ELSE /\ localCall.op = "create"
            /\ localCall.phase \in {"responded", "thrown"}
            /\ IF localCall.phase = "responded" /\ Ok(localCall.status)
               THEN /\ newConfession' = ""
                    /\ composer' = [composer EXCEPT !.recipient = "", !.sender = "",
                                                    !.song = ""]
                    /\ localCall' = LocalSent("list", NoBody, "")
               ELSE /\ localCall' = LocalIdle
                    /\ UNCHANGED <<newConfession, composer>>
            /\ UNCHANGED call
    /\ isSubmitting' = FALSE
    /\ submit' = "idle"
    /\ UNCHANGED <<confessions, viewMode, submitted>>
    /\ UNCHANGED <<localVars, supabaseConfigured, mirror, mirrorSeq, supabaseMessages,
                   mirrorLikes>>

InitApp ==
    /\ confessions = <<>>
    /\ newConfession = ""
    /\ composer = EmptyComposer
    /\ viewMode = "local"
    /\ isSubmitting = FALSE
    /\ submit = "idle"
    /\ localCall = LocalIdle
    /\ submitted = NotSubmitted

\* no request of the browser is in flight
Quiet == localCall.phase = "idle" /\ call[Caller].phase = "idle"

\* One browser writing to both feeds, one request at a time, while another
\* visitor likes the local record.
NextSubmit ==
    \/ \E value \in ComposerTexts :
          Quiet /\ setNewConfession(value) /\ UNCHANGED <<localVars, mirrorVars, configVars, bridgeVars, renderVars, pageVars>>
    \/ \E value \in {EmptyComposer, FilledComposer} :
          Quiet /\ setComposer(value) /\ UNCHANGED <<localVars, mirrorVars, configVars, bridgeVars, renderVars, pageVars>>
    \/ \E mode \in {"local", "supabase"} :
          setViewMode(mode) /\ UNCHANGED <<localVars, mirrorVars, configVars, bridgeVars, renderVars, pageVars>>
    \/ Quiet /\ Writes < MaxWrites /\ handleSubmit /\ UNCHANGED <<configVars, bridgeVars, renderVars, pageVars>>
    \/ Quiet /\ fetchConfessions /\ UNCHANGED <<localVars, mirrorVars, configVars, bridgeVars, renderVars, pageVars>>
    \/ \E ok \in BOOLEAN :
          LocalServe(ok, "asc") /\ UNCHANGED <<mirrorVars, configVars, bridgeVars, renderVars, pageVars>>
    \/ LocalFetchThrows /\ UNCHANGED <<localVars, mirrorVars, configVars, bridgeVars, renderVars, pageVars>>
    \/ ReceiveList /\ UNCHANGED <<localVars, mirrorVars, configVars, bridgeVars, renderVars, pageVars>>
    \/ SubmitReply /\ UNCHANGED <<configVars, bridgeVars, renderVars, pageVars>>
    \/ Quiet /\ fetchSupabaseMessages(Caller) /\ UNCHANGED <<localVars, extVars>>
    \/ MirrorRoute(Caller) /\ UNCHANGED <<localVars, extVars>>
    \/ MirrorFetchThrows(Caller) /\ UNCHANGED <<localVars, extVars>>
    \/ \E status \in {400, 500} : MirrorFails(Caller, status) /\ UNCHANGED <<localVars, extVars>>
    \/ MirrorListReply(Caller) /\ UNCHANGED <<localVars, extVars>>
    \/ MirrorCreateReply(Caller) /\ UNCHANGED <<localVars, extVars>>
    \/ (submit = "supabase" => call[Caller].op # "create")
          /\ Receive(Caller) /\ UNCHANGED <<localVars, extVars>>
    \/ \E id \in {"1"} :
          Writes < MaxWrites /\ LikeRoute(id, TRUE) /\ UNCHANGED <<mirrorVars, extVars>>
    \/ \E id \in MirrorIds, currentLikes \in 0..MaxMirrorLikes :
          /\ Quiet
          /\ Writes < MaxWrites
          /\ handleSupabaseLike(Caller, id, currentLikes)
          /\ UNCHANGED <<localVars, extVars>>
    \/ Writes < MaxWrites /\ MirrorLikeReply(Caller) /\ UNCHANGED <<localVars, extVars>>

\* The page's own steps while one browser composes and submits.
Composes ==
    \/ \E value \in ComposerTexts :
          Quiet /\ setNewConfession(value) /\ UNCHANGED <<localVars, mirrorVars, configVars, bridgeVars, renderVars, pageVars>>
    \/ \E value \in {EmptyComposer, FilledComposer} :
          Quiet /\ setComposer(value) /\ UNCHANGED <<localVars, mirrorVars, configVars, bridgeVars, renderVars, pageVars>>
    \/ \E mode \in {"local", "supabase"} :
          setViewMode(mode) /\ UNCHANGED <<localVars, mirrorVars, configVars, bridgeVars, renderVars, pageVars>>
    \/ Quiet /\ Writes < MaxWrites /\ handleSubmit /\ UNCHANGED <<configVars, bridgeVars, renderVars, pageVars>>

\* the fetch of a local route settles: the server answers, or it rejects
LocalSettles ==
    \/ \E ok \in BOOLEAN :
          LocalServe(ok, "asc") /\ UNCHANGED <<mirrorVars, configVars, bridgeVars, renderVars, pageVars>>
    \/ LocalFetchThrows /\ UNCHANGED <<localVars, mirrorVars, configVars, bridgeVars, renderVars, pageVars>>

\* the fetch of a mirror route settles: the handler runs and the external
\* service answers or fails, or the fetch rejects
MirrorSettles ==
    \/ MirrorRoute(Caller) /\ UNCHANGED <<localVars, extVars>>
    \/ MirrorFetchThrows(Caller) /\ UNCHANGED <<localVars, extVars>>
    \/ \E status \in {400, 500} : MirrorFails(Caller, status) /\ UNCHANGED <<localVars, extVars>>
    \/ MirrorListReply(Caller) /\ UNCHANGED <<localVars, extVars>>
    \/ MirrorCreateReply(Caller) /\ UNCHANGED <<localVars, extVars>>

\* the code after an await runs once its fetch has settled
Continues ==
    \/ SubmitReply /\ UNCHANGED <<configVars, bridgeVars, renderVars, pageVars>>
    \/ ReceiveList /\ UNCHANGED <<localVars, mirrorVars, configVars, bridgeVars, renderVars, pageVars>>
    \/ (submit = "supabase" => call[Caller].op # "create")
          /\ Receive(Caller) /\ UNCHANGED <<localVars, extVars>>

NextCompose == Composes \/ LocalSettles \/ MirrorSettles \/ Continues

\* Every fetch settles and every continuation runs.
FairCompose == WF_vars(LocalSettles) /\ WF_vars(MirrorSettles) /\ WF_vars(Continues)

---------------------------------------------------------------------------
(* What the page renders: the filtered feed, HighlightedText and            *)
(* SpotifyPlayer.  Strings are JavaScript strings; str[i] is CharAt(str, i). *)

CharAt(str, i) == SubSeq(str, i, i)

\* a filter without the 'All' case
filteredConfessionsByCategoryOnly == SelectSeq(confessions, LAMBDA c : c.category = filter)

\* filter === 'All' ? confessions : confessions.filter(c => c.category === filter)
filteredConfessions ==
    IF filter = "All"
    THEN confessions
    ELSE SelectSeq(confessions, LAMBDA c : c.category = filter)

\* onClick of a filter button
setFilter(cat) ==
    /\ filter' = cat
    /\ UNCHANGED <<text, playerSong>>

SPECIAL_WORDS ==
    [love |-> "text-pink-500 font-bold drop-shadow-sm",
     crush |-> "text-rose-400 font-bold italic",
     heart |-> "text-red-500 animate-pulse",
     forever |-> "text-indigo-400 italic underline decoration-wavy",
     miss |-> "text-blue-400",
     beautiful |-> "text-amber-500 font-serif italic",
     cute |-> "text-pink-300",
     smile |-> "text-yellow-500",
     asiet |-> "text-romantic-gold font-bold tracking-widest uppercase",
     secret |-> "bg-romantic-ink text-white px-1 rounded",
     dream |-> "text-purple-400 italic"]

UpperCase == "ABCDEFGHIJKLMNOPQRSTUVWXYZ"

LowerCase == "abcdefghijklmnopqrstuvwxyz"

toLowerCaseChar(ch) ==
    IF \E i \in 1..Len(UpperCase) : CharAt(UpperCase, i) = ch
    THEN CharAt(LowerCase, CHOOSE i \in 1..Len(UpperCase) : CharAt(UpperCase, i) = ch)
    ELSE ch

\* String.prototype.toLowerCase
RECURSIVE toLowerCase(_)
toLowerCase(str) ==
    IF str = "" THEN "" ELSE toLowerCaseChar(CharAt(str, 1)) \o toLowerCase(Tail(str))

\* the class [.,!?;:]
Punctuation == {".", ",", "!", "?", ";", ":"}

\* .replace(/[.,!?;:]/g, ''): every mark is removed, wherever it stands
RECURSIVE RemovePunctuation(_)
RemovePunctuation(str) ==
    IF str = "" THEN ""
    ELSE (IF CharAt(str, 1) \in Punctuation THEN "" ELSE CharAt(str, 1))
             \o RemovePunctuation(Tail(str))

\* a lookup key that keeps the letter case
cleanWordKeepingCase(word) == RemovePunctuation(word)

\* word.toLowerCase().replace(/[.,!?;:]/g, '')
cleanWord(word) == RemovePunctuation(toLowerCase(word))

\* The tokens of str up to its end: words at the odd places, runs of
\* whitespace at the even ones.
RECURSIVE Scan(_)
Scan(str) ==
    IF str = "" THEN <<"">>
    ELSE LET pre == Scan(SubSeq(str, 1, Len(str) - 1))
             ch == CharAt(str, Len(str))
             inSpace == Len(pre) % 2 = 0
         IN IF (ch \in WhiteSpace) = inSpace
            THEN [pre EXCEPT ![Len(pre)] = @ \o ch]
            ELSE Append(pre, ch)

\* str.split(/(\s+)/): the separators are kept, and a text that ends in
\* whitespace ends in an empty word
Split(str) ==
    IF Len(Scan(str)) % 2 = 0 THEN Append(Scan(str), "") ELSE Scan(str)

NoClass == ""

\* HighlightedText: one span per token, with the keyword's className or none
HighlightedText(str) ==
    LET words == Split(str)
    IN [i \in 1..Len(words) |->
           [word |-> words[i],
            className |-> IF cleanWord(words[i]) \in DOMAIN SPECIAL_WORDS
                          THEN SPECIAL_WORDS[cleanWord(words[i])]
                          ELSE NoClass]]

\* what a text is put together from
Pieces == {"love", "Love", "LOVE!", "lo.ve", "!miss", "cat", "dream?,", "...", " ", "\n"}

RECURSIVE TextsOf(_)
TextsOf(n) ==
    IF n = 0 THEN {""}
    ELSE TextsOf(n - 1) \cup {str \o piece : str \in TextsOf(n - 1), piece \in Pieces}

ShorterTexts == TextsOf(MaxPieces - 1)

\* the text rendered grows by a piece
TypeText(piece) ==
    /\ text \in ShorterTexts
    /\ text' = text \o piece
    /\ UNCHANGED <<filter, playerSong>>

SpotifyPrefix == "https://open.spotify.com/"

\* (track|album|playlist), in the order the alternatives are tried
ResourceTypes == <<"track", "album", "playlist">>

AlnumChars ==
    {CharAt(LowerCase, i) : i \in 1..Len(LowerCase)}
        \cup {CharAt(UpperCase, i) : i \in 1..Len(UpperCase)}
        \cup {"0", "1", "2", "3", "4", "5", "6", "7", "8", "9"}

\* lit stands in str at place i
StartsWith(str, i, lit) ==
    /\ i + Len(lit) - 1 <= Len(str)
    /\ SubSeq(str, i, i + Len(lit) - 1) = lit

\* ([a-zA-Z0-9]+) is greedy: the place of the last character of the run
\* that starts at j, or j - 1 when there is none
RECURSIVE IdEnd(_, _)
IdEnd(str, j) ==
    IF j <= Len(str) /\ CharAt(str, j) \in AlnumChars THEN IdEnd(str, j + 1) ELSE j - 1

NoMatch == [type |-> "", id |-> ""]

\* the pattern tried at place i
MatchAt(str, i) ==
    LET j == i + Len(SpotifyPrefix)
        types == {k \in 1..Len(ResourceTypes) : StartsWith(str, j, ResourceTypes[k] \o "/")}
    IN IF ~StartsWith(str, i, SpotifyPrefix) \/ types = {} THEN NoMatch
       ELSE LET k == CHOOSE k \in types : \A l \in types : k <= l
                from == j + Len(ResourceTypes[k]) + 1
            IN IF IdEnd(str, from) < from THEN NoMatch
               ELSE [type |-> ResourceTypes[k], id |-> SubSeq(str, from, IdEnd(str, from))]

RECURSIVE MatchFrom(_, _)
MatchFrom(str, i) ==
    IF i > Len(str) THEN NoMatch
    ELSE IF MatchAt(str, i) # NoMatch THEN MatchAt(str, i)
    ELSE MatchFrom(str, i + 1)

\* a pattern anchored at the start of the field
spotifyMatchAnchored(str) == MatchAt(str, 1)

\* song.match(spotifyRegex): the leftmost place the pattern matches at
spotifyMatch(str) == MatchFrom(str, 1)

\* SpotifyPlayer: the embedded player, or the search link
SpotifyPlayer(str) ==
    IF spotifyMatch(str) # NoMatch
    THEN [render |-> "embed",
          src |-> "https://open.spotify.com/embed/" \o spotifyMatch(str).type \o "/"
                     \o spotifyMatch(str).id \o "?utm_source=generator&theme=0"]
    ELSE [render |-> "search", src |-> ""]

\* song fields: some words, a host, a resource type, a slash and an id,
\* each right or wrong; and plain titles
Songs ==
    {lead \o host \o kind \o sep \o id :
        lead \in {"", "listen: "},
        host \in {"https://open.spotify.com/", "http://open.spotify.com/",
                  "https://open-spotify.com/", "https://open.spotify.com/embed/"},
        kind \in {"track", "album", "playlist", "artist", "Track"},
        sep \in {"/", ""},
        id \in {"abc123", "", "_x", "4uLU6h?si=9"}}
      \cup {"Perfect by Ed Sheeran", ""}

\* the player is rendered with another song field
ShowSong(str) ==
    /\ playerSong' = str
    /\ UNCHANGED <<filter, text>>

InitRender ==
    /\ filter = "All"
    /\ text = ""
    /\ playerSong = ""

\* lists the local feed can hold: ids in order, each record in some category
FeedCategories == {"Love", "Rant", "Other"}

FeedLists ==
    UNION {{[i \in 1..n |-> [SeedRow(i) EXCEPT !.category = cats[i]]] :
               cats \in [1..n -> FeedCategories]} : n \in 0..MaxFeed}

NextFilter ==
    \E cat \in {"All"} \cup CATEGORIES :
        setFilter(cat) /\ UNCHANGED <<localVars, mirrorVars, configVars, bridgeVars, appVars, pageVars>>

NextHighlight ==
    \E piece \in Pieces :
        TypeText(piece) /\ UNCHANGED <<localVars, mirrorVars, configVars, bridgeVars, appVars, pageVars>>

NextPlayer ==
    \E str \in Songs :
        ShowSong(str) /\ UNCHANGED <<localVars, mirrorVars, configVars, bridgeVars, appVars, pageVars>>

---------------------------------------------------------------------------
(* The campus mood: analyzeMood asks the Gemini model for a summary of the  *)
(* first confessions of the local list.                                      *)

QuietMood == "The campus is quiet today."

MoodFallback == "Unable to sense the mood right now."

Summaries == {"Hopeful and a little lovesick."}

NoMoodCall == [phase |-> "idle", sample |-> 0]

\* an analyzeMood whose failure escapes: the summary and the flag stay
MoodReplyUnhandled(answer) ==
    /\ moodCall.phase = "awaiting"
    /\ moodCall' = NoMoodCall
    /\ IF answer = "throws"
       THEN UNCHANGED <<campusMood, isAnalyzingMood>>
       ELSE /\ campusMood' = IF answer = "" THEN QuietMood ELSE answer
            /\ isAnalyzingMood' = FALSE
    /\ UNCHANGED <<moodAsked, likeCall>>

\* analyzeMood up to its await.  The button is disabled while
\* isAnalyzingMood; the handler itself returns at once on an empty list.
\* constructed = FALSE is new GoogleGenAI(...) throwing, which the catch
\* turns into the fallback before anything is asked.
analyzeMood(constructed) ==
    /\ ~isAnalyzingMood
    /\ IF Len(confessions) = 0
       THEN /\ moodAsked' = [moodAsked EXCEPT !.clicks = @ + 1]
            /\ UNCHANGED <<campusMood, isAnalyzingMood, moodCall>>
       ELSE IF constructed
       THEN /\ isAnalyzingMood' = TRUE
            /\ moodCall' = [phase |-> "awaiting",
                            sample |-> Min(Len(confessions), MoodSample)]
            /\ moodAsked' = [clicks |-> moodAsked.clicks + 1,
                             requests |-> moodAsked.requests + 1]
            /\ UNCHANGED campusMood
       ELSE /\ campusMood' = MoodFallback
            /\ moodAsked' = [moodAsked EXCEPT !.clicks = @ + 1]
            /\ UNCHANGED <<isAnalyzingMood, moodCall>>
    /\ UNCHANGED likeCall

\* analyzeMood after its await: response.text, or the quiet line when it is
\* empty; a throw gives the fallback; finally the flag is false.
MoodReply(answer) ==
    /\ moodCall.phase = "awaiting"
    /\ moodCall' = NoMoodCall
    /\ campusMood' = IF answer = "throws" THEN MoodFallback
                     ELSE IF answer = "" THEN QuietMood
                     ELSE answer
    /\ isAnalyzingMood' = FALSE
    /\ UNCHANGED <<moodAsked, likeCall>>

NoLikeCall == [phase |-> "idle", id |-> 0, status |-> 0]

InitPage ==
    /\ campusMood = Null
    /\ isAnalyzingMood = FALSE
    /\ moodCall = NoMoodCall
    /\ moodAsked = [clicks |-> 0, requests |-> 0]
    /\ likeCall = NoLikeCall

NextMood ==
    \/ \E constructed \in BOOLEAN :
          /\ moodAsked.clicks < MaxMoodCalls
          /\ analyzeMood(constructed)
          /\ UNCHANGED <<localVars, mirrorVars, configVars, bridgeVars, appVars, renderVars>>
    \/ \E answer \in Summaries \cup {"", "throws"} :
          /\ MoodReply(answer)
          /\ UNCHANGED <<localVars, mirrorVars, configVars, bridgeVars, appVars, renderVars>>

\* ids of the records the page shows a like button for
DisplayedIds ==
    IF confessions = ErrorObject THEN {}
    ELSE {confessions[k].id : k \in 1..Len(confessions)}

\* prev.map(c => c.id === id ? { ...c, likes: c.likes + 1 } : c)
WithLike(prev, id) ==
    IF prev = ErrorObject THEN prev
    ELSE [k \in 1..Len(prev) |->
             IF prev[k].id = id THEN [prev[k] EXCEPT !.likes = @ + 1] ELSE prev[k]]

\* handleLike(confession.id) up to its await
handleLike(id) ==
    /\ likeCall.phase = "idle"
    /\ id \in DisplayedIds
    /\ likeCall' = [phase |-> "sent", id |-> id, status |-> 0]
    /\ UNCHANGED <<campusMood, isAnalyzingMood, moodCall, moodAsked>>

\* The server runs the like handler on the browser's request.
LikeServe(ok) ==
    /\ likeCall.phase = "sent"
    /\ LikeRoute(ToString(likeCall.id), ok)
    /\ likeCall' = [likeCall EXCEPT !.phase = "responded", !.status = res'.status]
    /\ UNCHANGED <<campusMood, isAnalyzingMood, moodCall, moodAsked>>

\* fetch rejects: the like request, or its answer, is lost
LikeFetchThrows ==
    /\ likeCall.phase \in {"sent", "responded"}
    /\ likeCall' = [likeCall EXCEPT !.phase = "thrown"]
    /\ UNCHANGED <<campusMood, isAnalyzingMood, moodCall, moodAsked>>

\* a handleLike that counts the like whatever the answer
LikeReplyWhateverStatus ==
    /\ likeCall.phase \in {"responded", "thrown"}
    /\ confessions' = WithLike(confessions, likeCall.id)
    /\ likeCall' = NoLikeCall
    /\ UNCHANGED <<newConfession, composer, viewMode, isSubmitting, submit, localCall,
                   submitted>>
    /\ UNCHANGED <<campusMood, isAnalyzingMood, moodCall, moodAsked>>

\* handleLike after its await: on an ok answer the displayed record gains a
\* like; a rejected fetch is only logged
LikeReply ==
    /\ likeCall.phase \in {"responded", "thrown"}
    /\ confessions' = IF likeCall.phase = "responded" /\ Ok(likeCall.status)
                      THEN WithLike(confessions, likeCall.id)
                      ELSE confessions
    /\ likeCall' = NoLikeCall
    /\ UNCHANGED <<newConfession, composer, viewMode, isSubmitting, submit, localCall,
                   submitted>>
    /\ UNCHANGED <<campusMood, isAnalyzingMood, moodCall, moodAsked>>

\* One browser fetching the local feed and liking the records it shows.
NextLike ==
    \/ fetchConfessions
          /\ UNCHANGED <<localVars, mirrorVars, configVars, bridgeVars, renderVars, pageVars>>
    \/ \E ok \in BOOLEAN :
          /\ localCall.op = "list"
          /\ LocalServe(ok, "asc")
          /\ UNCHANGED <<mirrorVars, configVars, bridgeVars, renderVars, pageVars>>
    \/ LocalFetchThrows
          /\ UNCHANGED <<localVars, mirrorVars, configVars, bridgeVars, renderVars, pageVars>>
    \/ ReceiveList
          /\ UNCHANGED <<localVars, mirrorVars, configVars, bridgeVars, renderVars, pageVars>>
    \/ \E id \in 1..MaxRows :
          /\ LikeCount < MaxLikes
          /\ handleLike(id)
          /\ UNCHANGED <<localVars, mirrorVars, configVars, bridgeVars, appVars, renderVars>>
    \/ \E ok \in BOOLEAN :
          /\ LikeServe(ok)
          /\ UNCHANGED <<mirrorVars, configVars, bridgeVars, appVars, renderVars>>
    \/ LikeFetchThrows
          /\ UNCHANGED <<localVars, mirrorVars, configVars, bridgeVars, appVars, renderVars>>
    \/ LikeReply
          /\ UNCHANGED <<localVars, mirrorVars, configVars, bridgeVars, renderVars>>

---------------------------------------------------------------------------
(* Initial states and specifications *)

InitLocal ==
    /\ db = <<>>
    /\ sqlite_sequence = 0
    /\ now = 0
    /\ req = Request("none", NoBody, "")
    /\ res = Response("none", 0, 0, <<>>)
    /\ issued = <<>>
    /\ likesDone = [i \in 1..MaxRows |-> 0]
    /\ likesSince = [i \in 1..MaxRows |-> 0]

\* A database file that already holds ListLimit - 1 confessions, all written
\* within the second before the clock's origin (CREATE TABLE IF NOT EXISTS
\* keeps the rows of earlier runs).
InitFeedLocal ==
    /\ db = [i \in 1..(ListLimit - 1) |-> SeedRow(i)]
    /\ sqlite_sequence = ListLimit - 1
    /\ now = 0
    /\ req = Request("none", NoBody, "")
    /\ res = Response("none", 0, 0, <<>>)
    /\ issued = <<>>
    /\ likesDone = [i \in 1..MaxRows |-> 0]
    /\ likesSince = [i \in 1..MaxRows |-> 0]

InitFeed ==
    InitFeedLocal /\ InitMirror /\ InitBridge /\ InitApp /\ InitRender /\ InitPage /\ supabaseConfigured

\* The local handlers never read the mirror's configuration.
Init == InitLocal /\ InitMirror /\ InitBridge /\ InitApp /\ InitRender /\ InitPage /\ supabaseConfigured

NextLocal ==
    \/ \E body \in Bodies, ok \in BOOLEAN :
          Len(issued) < MaxRows /\ CreateRoute(body, ok) /\ UNCHANGED <<mirrorVars, extVars>>
    \/ \E ok \in BOOLEAN, tie \in {"asc", "desc"} :
          ListRoute(ok, tie) /\ UNCHANGED <<mirrorVars, extVars>>
    \/ \E id \in IdParams, ok \in BOOLEAN :
          LikeCount < MaxLikes /\ LikeRoute(id, ok) /\ UNCHANGED <<mirrorVars, extVars>>
    \/ Tick /\ UNCHANGED <<mirrorVars, extVars>>

\* The feed of a database that is about to outgrow the list's cap.
FeedBodies ==
    { Body("abcd", "Love", "Ann", "Bob", "Happy", "Perfect"),
      Body("hello", Undefined, Undefined, "", Undefined, ""),
      Body("I miss you so much", "Love", "Ann", "Bob", "Happy", "Perfect") }

NextFeed ==
    \/ \E body \in FeedBodies, ok \in BOOLEAN :
          Len(issued) < MaxRows /\ CreateRoute(body, ok) /\ UNCHANGED <<mirrorVars, extVars>>
    \/ \E ok \in BOOLEAN, tie \in {"asc", "desc"} :
          ListRoute(ok, tie) /\ UNCHANGED <<mirrorVars, extVars>>
    \/ Tick /\ UNCHANGED <<mirrorVars, extVars>>

\* The external calls the server is waiting on: the mirror handlers that are
\* at their await, and the bridge handlers that are at theirs.
Outstanding ==
    {<<"mirror", c>> : c \in {d \in Clients : call[d].phase = "awaiting"}}
        \cup {<<"bridge", c>> : c \in {d \in Clients : auth[d].op # "idle"}}

\* a server whose handlers wait for the external service without giving the
\* event loop back: nothing is taken while a call is outstanding
TakesRequestWhenNoneOutstanding(outstanding) == outstanding = {}

\* An async handler returns to the event loop at its await, so Express takes
\* the next request whatever calls are outstanding.
TakesRequest(outstanding) == TRUE

\* The server with local, mirror and bridge requests arriving in any order
\* while the external services take their time.
NextStall ==
    \/ \E body \in FeedBodies, ok \in BOOLEAN :
          /\ Writes < MaxWrites
          /\ TakesRequest(Outstanding)
          /\ CreateRoute(body, ok)
          /\ UNCHANGED <<mirrorVars, extVars>>
    \/ \E ok \in BOOLEAN :
          /\ TakesRequest(Outstanding)
          /\ ListRoute(ok, "asc")
          /\ UNCHANGED <<mirrorVars, extVars>>
    \/ \E id \in {"1", "abc"}, ok \in BOOLEAN :
          /\ Writes < MaxWrites
          /\ TakesRequest(Outstanding)
          /\ LikeRoute(id, ok)
          /\ UNCHANGED <<mirrorVars, extVars>>
    \/ \E c \in Clients : fetchSupabaseMessages(c) /\ UNCHANGED <<localVars, extVars>>
    \/ \E c \in Clients :
          TakesRequest(Outstanding) /\ MirrorRoute(c) /\ UNCHANGED <<localVars, extVars>>
    \/ \E c \in Clients : MirrorListReply(c) /\ UNCHANGED <<localVars, extVars>>
    \/ \E c \in Clients : Receive(c) /\ UNCHANGED <<localVars, extVars>>
    \/ /\ TakesRequest(Outstanding)
       /\ CallbackRoute(Caller)
       /\ UNCHANGED <<localVars, mirrorVars, configVars, appVars, renderVars, pageVars>>
    \/ \E t \in {"t1", NoToken}, thrown \in BOOLEAN :
          /\ CallbackReply(Caller, t, thrown)
          /\ UNCHANGED <<localVars, mirrorVars, configVars, appVars, renderVars, pageVars>>
    \/ /\ TakesRequest(Outstanding)
       /\ TopTracksRoute(Caller)
       /\ UNCHANGED <<localVars, mirrorVars, configVars, appVars, renderVars, pageVars>>
    \/ \E thrown \in BOOLEAN :
          /\ TopTracksReply(Caller, thrown)
          /\ UNCHANGED <<localVars, mirrorVars, configVars, appVars, renderVars, pageVars>>

Spec == Init /\ [][NextLocal]_vars

InitAll == InitLocal /\ InitMirror /\ InitBridge /\ InitApp /\ InitRender /\ InitPage

SpecMirror == InitAll /\ [][NextMirror]_vars

SpecFeed == InitFeed /\ [][NextFeed]_vars

\* The mirror and its status endpoint as one caller sees them, under every
\* setting of the two credentials.
NextConfig ==
    \/ SupabaseStatusRoute /\ UNCHANGED <<localVars, bridgeVars, appVars, renderVars, pageVars>>
    \/ fetchSupabaseMessages(Caller) /\ UNCHANGED <<localVars, extVars>>
    \/ \E msg \in Messages :
          mirrorSeq < MaxMessages /\ PostMessage(Caller, msg) /\ UNCHANGED <<localVars, extVars>>
    \/ \E id \in MirrorIds, currentLikes \in {NoLikes} \cup (0..MaxMirrorLikes) :
          /\ MirrorLikeCount < MaxMirrorLikes
          /\ handleSupabaseLike(Caller, id, currentLikes)
          /\ UNCHANGED <<localVars, extVars>>
    \/ MirrorRoute(Caller) /\ UNCHANGED <<localVars, extVars>>
    \/ \E status \in {400, 500} : MirrorFails(Caller, status) /\ UNCHANGED <<localVars, extVars>>
    \/ MirrorListReply(Caller) /\ UNCHANGED <<localVars, extVars>>
    \/ mirrorSeq < MaxMessages /\ MirrorCreateReply(Caller) /\ UNCHANGED <<localVars, extVars>>
    \/ MirrorLikeCount < MaxMirrorLikes /\ MirrorLikeReply(Caller) /\ UNCHANGED <<localVars, extVars>>
    \/ Receive(Caller) /\ UNCHANGED <<localVars, extVars>>

SpecConfig == InitAll /\ [][NextConfig]_vars

SpecBridge == Init /\ [][NextBridge]_vars

\* Both stores hold a record of an earlier day when the browser opens.
InitSubmit ==
    /\ db = <<SeedRow(1)>>
    /\ sqlite_sequence = 1
    /\ now = 0
    /\ req = Request("none", NoBody, "")
    /\ res = Response("none", 0, 0, <<>>)
    /\ issued = <<>>
    /\ likesDone = [i \in 1..MaxRows |-> 0]
    /\ likesSince = [i \in 1..MaxRows |-> 0]
    /\ env = [SUPABASE_URL |-> TRUE, SUPABASE_ANON_KEY |-> TRUE]
    /\ supabaseConfigured = HasCredentials(env)
    /\ supabaseStatus = NoStatus
    /\ mirror = <<[id |-> 1, Confession |-> "hello", Like |-> 0]>>
    /\ mirrorSeq = 1
    /\ supabaseMessages = [c \in Clients |-> <<>>]
    /\ call = [c \in Clients |-> Idle]
    /\ mirrorLikes = [i \in MirrorIds |-> 0]
    /\ InitBridge
    /\ InitApp
    /\ InitRender /\ InitPage

\* The filter over every list the browser can hold.
InitFilter ==
    /\ InitLocal
    /\ InitMirror
    /\ supabaseConfigured
    /\ InitBridge
    /\ confessions \in FeedLists
    /\ newConfession = ""
    /\ composer = EmptyComposer
    /\ viewMode = "local"
    /\ isSubmitting = FALSE
    /\ submit = "idle"
    /\ localCall = LocalIdle
    /\ submitted = NotSubmitted
    /\ InitRender /\ InitPage

\* The player over every song field.
InitPlayer ==
    /\ InitLocal
    /\ InitMirror
    /\ supabaseConfigured
    /\ InitBridge
    /\ InitApp
    /\ filter = "All"
    /\ text = ""
    /\ playerSong \in Songs
    /\ InitPage

SpecFilter == InitFilter /\ [][NextFilter]_vars

\* The mood button over every list the browser can hold.
SpecMood == InitFilter /\ [][NextMood]_vars

SpecHighlight == Init /\ [][NextHighlight]_vars

SpecPlayer == InitPlayer /\ [][NextPlayer]_vars

SpecSubmit == InitSubmit /\ [][NextSubmit]_vars

SpecLike == InitSubmit /\ [][NextLike]_vars

SpecStall == InitSubmit /\ [][NextStall]_vars

SpecCompose == InitSubmit /\ [][NextCompose]_vars /\ FairCompose

---------------------------------------------------------------------------
(* Properties of the local service *)

\* content is absent, or is text of fewer than 5 characters
TooShort(content) ==
    IF content \in {Undefined, Null} THEN TRUE ELSE Len(content) < 5

OptionalFields == {"recipient", "sender", "feeling", "song"}

\* C1: a create whose content is absent or shorter than 5 characters is
\* answered 400 and leaves the table (and its rowid counter) as it was,
\* whatever the table held and whether or not the store would have failed.
C1_ShortContentRejected ==
    [][\A body \in Bodies, ok \in BOOLEAN :
          (CreateRoute(body, ok) /\ TooShort(body.content))
              => /\ res'.status = 400
                 /\ db' = db
                 /\ sqlite_sequence' = sqlite_sequence]_vars

C1_Witness ==
    /\ req.op = "create"
    /\ req.body.content = "abcd"
    /\ res.status = 400
    /\ Len(db) > 0

\* C2: the ids answered by successful creates are strictly increasing in the
\* order they were issued (so no id is issued twice), and each is the id of
\* one row of the table.
C2_IdsStrictlyIncreasing ==
    /\ \A i, j \in 1..Len(issued) : i < j => issued[i] < issued[j]
    /\ \A i \in 1..Len(issued) :
          Cardinality({k \in 1..Len(db) : db[k].id = issued[i]}) = 1
    /\ (res.op = "create" /\ res.status = 201) =>
          /\ issued # <<>>
          /\ res.id = issued[Len(issued)]

C2_Witness ==
    /\ Len(issued) >= 2
    /\ res.op = "create"
    /\ res.status = 201

\* C3: a like the store carries out is answered 200; it adds exactly 1 to the
\* likes of the row whose id the parameter names, changes no other field of
\* it and no other row, and when no row has that id the table is unchanged.
C3_LikeFrame ==
    [][\A id \in IdParams :
          LikeRoute(id, TRUE)
              => /\ res'.status = 200
                 /\ Len(db') = Len(db)
                 /\ \A i \in 1..Len(db) :
                       IF db[i].id = ParamRowid(id)
                       THEN db'[i] = [db[i] EXCEPT !.likes = db[i].likes + 1]
                       ELSE db'[i] = db[i]
                 /\ (ParamRowid(id) \notin Ids => db' = db)]_vars

C3_Witness ==
    /\ req.op = "like"
    /\ res.status = 200
    /\ Len(db) >= 2
    /\ \E i \in 1..Len(db) : db[i].id = ParamRowid(req.id) /\ db[i].likes = 1

\* a like of an id no row has, answered 200
C3_WitnessUnknownId ==
    /\ req.op = "like"
    /\ res.status = 200
    /\ Len(db) >= 1
    /\ ParamRowid(req.id) \notin Ids

\* C4: a list answered 200 holds at most 50 rows, each timestamp at least
\* the timestamp of the row after it.
C4_ListCappedAndOrdered ==
    (res.op = "list" /\ res.status = 200) =>
        /\ Len(res.body) <= 50
        /\ \A k \in 1..(Len(res.body) - 1) :
              res.body[k].timestamp >= res.body[k + 1].timestamp

C4_Witness ==
    /\ res.op = "list"
    /\ res.status = 200
    /\ Len(db) > 50
    /\ Len(res.body) = 50
    /\ res.body[1].timestamp > res.body[50].timestamp

\* C5: the list request that follows a successful create answers the new
\* confession first, with likes 0.
C5_NewestFirst ==
    [][\A tie \in {"asc", "desc"} :
          (res.op = "create" /\ res.status = 201 /\ ListRoute(TRUE, tie))
              => /\ res'.body # <<>>
                 /\ res'.body[1].id = res.id
                 /\ res'.body[1].likes = 0]_vars

\* C6 as stated: every row's likes equals the number of like requests
\* completed for its id.
C6_LikesEqualAllLikes ==
    \A i \in 1..Len(db) :
        db[i].id \in DOMAIN likesDone => db[i].likes = likesDone[db[i].id]

LikesCounted ==
    \A i \in 1..Len(db) :
        db[i].id \in DOMAIN likesSince => db[i].likes = likesSince[db[i].id]

LikesNeverDecrease ==
    /\ Len(db') >= Len(db)
    /\ \A i \in 1..Len(db) : db'[i].id = db[i].id /\ db'[i].likes >= db[i].likes
    /\ \A i \in (Len(db) + 1)..Len(db') : db'[i].likes = 0

\* C6, amended: a row is created with likes 0, its likes never decrease, and
\* they equal the number of like requests for its id completed since the row
\* was created.
C6_LikesEqualLikesSinceCreation ==
    []LikesCounted /\ [][LikesNeverDecrease]_vars

C6_Witness ==
    /\ Len(db) >= 2
    /\ \E i \in 1..Len(db) :
          /\ db[i].likes = 1
          /\ likesSince[db[i].id] = 1
          /\ likesDone[db[i].id] = 2

\* C7: every stored category is one of the six listed.
C7_CategoryListed ==
    \A i \in 1..Len(db) : db[i].category \in CATEGORIES

\* C8: the row a successful create stored has category General when the
\* request gave none, holds NULL in each optional field the request omitted
\* or left empty and the request's value in each one it gave, and holds the
\* empty string in none of them.
C8_Defaults ==
    (req.op = "create" /\ res.status = 201) =>
        LET row == Row(res.id)
        IN /\ req.body.category \in {Undefined, Null, ""} => row.category = "General"
           /\ \A f \in OptionalFields :
                 /\ row[f] # ""
                 /\ row[f] = IF req.body[f] \in {Undefined, Null, ""}
                             THEN Null ELSE req.body[f]

C8_Witness ==
    /\ req.op = "create"
    /\ res.status = 201
    /\ req.body.category = Undefined
    /\ req.body.recipient = Undefined
    /\ req.body.sender = ""
    /\ Row(res.id).category = "General"
    /\ Row(res.id).recipient = Null
    /\ Row(res.id).sender = Null

---------------------------------------------------------------------------
(* Properties of the mirror *)

MirrorRow(id) == mirror[CHOOSE i \in 1..Len(mirror) : mirror[i].id = id]

MirrorHas(id) == \E i \in 1..Len(mirror) : mirror[i].id = id

LikeAnswered(c) ==
    /\ call[c].op = "like"
    /\ call[c].phase = "responded"
    /\ call[c].status = 200

C9_WitnessAbsent ==
    \E c \in Clients :
        /\ LikeAnswered(c)
        /\ call[c].currentLikes = NoLikes
        /\ call[c].data # <<>>
        /\ call[c].data[1].Like = 1

BothLikedSameRead ==
    /\ \A c \in Clients : LikeAnswered(c) /\ call[c].fromFeed
    /\ call["c1"].id = call["c2"].id
    /\ call["c1"].currentLikes = call["c2"].currentLikes
    /\ MirrorHas(call["c1"].id)

\* C10: when two clients each liked a row from a feed that showed it with
\* Like = n, and both likes were answered, the row holds n + 1 although two
\* likes were carried out: one of them is lost.
C10_LostLike ==
    BothLikedSameRead =>
        /\ MirrorRow(call["c1"].id).Like = call["c1"].currentLikes + 1
        /\ mirrorLikes[call["c1"].id] >= 2

C10_Witness ==
    /\ BothLikedSameRead
    /\ MirrorRow(call["c1"].id).Like = call["c1"].currentLikes + 1
    /\ MirrorRow(call["c1"].id).Like < call["c1"].currentLikes + 2
    /\ mirrorLikes[call["c1"].id] = 2

---------------------------------------------------------------------------
(* Properties of the mirror's configuration *)

BothCredentials == env.SUPABASE_URL /\ env.SUPABASE_ANON_KEY

NotConfiguredAnswer ==
    \A c \in Clients :
        (MirrorRoute(c) /\ ~BothCredentials)
            => /\ call'[c].phase = "responded"
               /\ call'[c].status = 503
               /\ mirror' = mirror

NoExternalCallUnconfigured ==
    /\ ~BothCredentials =>
          /\ \A c \in Clients : call[c].phase # "awaiting"
          /\ \A c \in Clients : call[c].phase = "responded" => call[c].status = 503
          /\ mirror = <<>>
    /\ supabaseStatus.asked => (supabaseStatus.configured <=> BothCredentials)

\* C11: unless the URL and the key are both set, the list, create and like
\* handlers of the mirror answer 503 and no call to the external service is
\* ever in flight; the status endpoint answers configured = false in exactly
\* that case.
C11_NotConfigured ==
    []NoExternalCallUnconfigured /\ [][NotConfiguredAnswer]_vars

\* with the URL set and the key missing: a like answered 503 and a status
\* answer of configured = false
C11_Witness ==
    /\ env.SUPABASE_URL
    /\ ~env.SUPABASE_ANON_KEY
    /\ call[Caller].op = "like"
    /\ call[Caller].phase = "responded"
    /\ call[Caller].status = 503
    /\ supabaseStatus.asked
    /\ ~supabaseStatus.configured

---------------------------------------------------------------------------
(* The Spotify bridge: claims *)

HoldsNoToken(c) == session[c].spotify_token = NoToken

\* the calls an action adds to those made to Spotify
NewCalls == upstream' \ upstream

TopTracksUnauthenticated ==
    \A c \in Clients :
        (TopTracksRoute(c) /\ HoldsNoToken(c))
            => /\ bridgeRes'[c] = BridgeAnswer("top-tracks", 401, FALSE)
               /\ auth'[c].op = "idle"
               /\ NewCalls = {}

TopTracksCarriesToken ==
    \A c \in Clients :
        (TopTracksRoute(c) /\ NewCalls # {})
            => /\ session[c].spotify_token \in Tokens
               /\ NewCalls = {[kind |-> "top-tracks", bearer |-> session[c].spotify_token]}

\* C12: a top-tracks read for a session that holds no bearer token answers
\* 401 and makes no call to Spotify; a read calls Spotify only when the
\* session holds a token, and the call carries that token.
C12_TopTracksNeedsToken == [][TopTracksUnauthenticated /\ TopTracksCarriesToken]_vars

C12_Witness ==
    /\ HoldsNoToken(Caller)
    /\ bridgeRes[Caller] = BridgeAnswer("top-tracks", 401, FALSE)
    /\ \A u \in upstream : u.kind # "top-tracks"

\* C13: a session holds a bearer token only after the authorization URL
\* was requested for it.
C13_TokenOnlyAfterUrl ==
    \A c \in Clients : session[c].spotify_token # NoToken => urlRequested[c]

\* the cookie holds a token and was set 24 hours ago or more
Expired(c) == session[c].spotify_token \in Tokens /\ hour >= session[c].setAt + 24

ExpiredStatus ==
    \A c \in Clients :
        (SpotifyStatusRoute(c) /\ Expired(c))
            => /\ bridgeRes'[c] = BridgeAnswer("status", 200, FALSE)
               /\ NewCalls = {}

ExpiredTopTracks ==
    \A c \in Clients :
        (TopTracksRoute(c) /\ Expired(c))
            => /\ bridgeRes'[c] = BridgeAnswer("top-tracks", 401, FALSE)
               /\ auth'[c].op = "idle"
               /\ NewCalls = {}

\* C14: once a session that holds a token has expired, 24 hours after its
\* cookie was set, the status endpoint reports connected = false and a
\* top-tracks read answers 401; neither calls Spotify, so no token is
\* refreshed.
C14_ExpiredIsUnauthenticated == [][ExpiredStatus /\ ExpiredTopTracks]_vars

C14_Witness ==
    /\ Expired(Caller)
    /\ bridgeRes[Caller] = BridgeAnswer("top-tracks", 401, FALSE)
    /\ [kind |-> "top-tracks", bearer |-> session[Caller].spotify_token] \in upstream

---------------------------------------------------------------------------
(* The two feeds *)

\* the server handles a request to a local route
LocalOperation ==
    \/ \E ok \in BOOLEAN, tie \in {"asc", "desc"} : LocalServe(ok, tie)
    \/ \E id \in IdParams, ok \in BOOLEAN : LikeRoute(id, ok)

\* the server, or the external service, handles a request to a mirror route
MirrorOperation ==
    \E c \in Clients :
        \/ MirrorRoute(c)
        \/ \E status \in {400, 500} : MirrorFails(c, status)
        \/ MirrorListReply(c)
        \/ MirrorCreateReply(c)
        \/ MirrorLikeReply(c)

LocalLeavesMirror == LocalOperation => UNCHANGED <<mirror, mirrorSeq>>

MirrorLeavesLocal == MirrorOperation => UNCHANGED <<db, sqlite_sequence>>

\* while a submission is under way a store gains a record only if it is
\* the one the mode selected when the submission started
SubmissionWritesSelected ==
    submit # "idle" =>
        /\ Len(db') # Len(db) => submitted.mode = "local"
        /\ Len(mirror') # Len(mirror) => submitted.mode = "supabase"

\* a submission answered ok added one record, holding the text submitted,
\* to the selected store and none to the other
SubmissionWritesOne ==
    (SubmitReply /\ newConfession' = "" /\ newConfession # "") =>
        IF submitted.mode = "local"
        THEN /\ Len(db) = submitted.rows + 1
             /\ db[Len(db)].content = submitted.text
             /\ Len(mirror) = submitted.messages
        ELSE /\ submitted.mode = "supabase"
             /\ Len(mirror) = submitted.messages + 1
             /\ mirror[Len(mirror)].Confession = submitted.text
             /\ Len(db) = submitted.rows

\* C15: no local operation (create, like, list) changes a mirror record, no
\* mirror operation changes a local record, and a submission writes one
\* record to the store the data-source mode selected when it started and
\* nothing to the other store.
C15_FeedsIndependent ==
    [][/\ LocalLeavesMirror
       /\ MirrorLeavesLocal
       /\ SubmissionWritesSelected
       /\ SubmissionWritesOne]_vars

C15_Witness ==
    /\ submitted.mode = "supabase"
    /\ submit = "idle"
    /\ viewMode = "local"
    /\ Len(mirror) = submitted.messages + 1
    /\ mirror[1].Like = 0
    /\ db = <<SeedRow(1)>>

C15_WitnessLocal ==
    /\ submitted.mode = "local"
    /\ submit = "idle"
    /\ Len(db) = submitted.rows + 1
    /\ Len(mirror) = 1

---------------------------------------------------------------------------
(* What the page renders: claims *)

\* places of the list whose record is in the category filtered by
Kept == {i \in 1..Len(confessions) : confessions[i].category = filter}

\* the k-th of them, counting from the top of the list
KeptAt(k) == CHOOSE i \in Kept : Cardinality({j \in Kept : j <= i}) = k

\* C16: with the value "All" the filter returns the list as it is; with any
\* other value it returns the records whose category equals the value,
\* all of them and no others, in the order of the list.
C16_FilterSubsequence ==
    IF filter = "All"
    THEN filteredConfessions = confessions
    ELSE /\ Len(filteredConfessions) = Cardinality(Kept)
         /\ \A k \in 1..Cardinality(Kept) : filteredConfessions[k] = confessions[KeptAt(k)]

C16_Witness ==
    /\ filter = "Love"
    /\ Len(confessions) = 3
    /\ confessions[2].category = "Rant"
    /\ Len(filteredConfessions) = 2
    /\ filteredConfessions[1].id = 1
    /\ filteredConfessions[2].id = 3

C16_WitnessAll ==
    /\ filter = "All"
    /\ Len(confessions) = 3
    /\ confessions[1].category # confessions[2].category
    /\ filteredConfessions = confessions

\* str without the punctuation marks it ends in
RECURSIVE StripTrailing(_)
StripTrailing(str) ==
    IF Len(str) > 0 /\ CharAt(str, Len(str)) \in Punctuation
    THEN StripTrailing(SubSeq(str, 1, Len(str) - 1))
    ELSE str

\* the token lowercased, its trailing punctuation stripped
Key(word) == StripTrailing(toLowerCase(word))

Keywords ==
    {"love", "crush", "heart", "forever", "miss", "beautiful", "cute", "smile", "asiet",
     "secret", "dream"}

RECURSIVE Concat(_, _)
Concat(spans, n) == IF n = 0 THEN "" ELSE Concat(spans, n - 1) \o spans[n].word

\* C18: a token that is no keyword (lowercased, trailing punctuation
\* stripped) is rendered without a style, and the rendered tokens, put
\* together in order, are the text.
C18_OthersUnstyled ==
    LET spans == HighlightedText(text)
    IN /\ \A i \in 1..Len(spans) :
             Key(spans[i].word) \notin Keywords => spans[i].className = NoClass
       /\ Concat(spans, Len(spans)) = text

\* the rendered tokens, put together in order, are the text
RoundTrip == Concat(HighlightedText(text), Len(HighlightedText(text))) = text

\* the field holds a link to resource type at place i, with an id of n
\* letters and digits
LinkAt(str, i, type, n) ==
    LET lit == SpotifyPrefix \o type \o "/"
    IN /\ StartsWith(str, i, lit)
       /\ i + Len(lit) + n - 1 <= Len(str)
       /\ \A k \in 0..(n - 1) : CharAt(str, i + Len(lit) + k) \in AlnumChars

Resources == {"track", "album", "playlist"}

IsLink(str) ==
    \E i \in 1..Len(str), type \in Resources, n \in 1..Len(str) : LinkAt(str, i, type, n)

\* the embed address of the first link in the field, its id taken whole
EmbedOfFirstLink(str, src) ==
    \E i \in 1..Len(str), type \in Resources, n \in 1..Len(str) :
        /\ LinkAt(str, i, type, n)
        /\ ~LinkAt(str, i, type, n + 1)
        /\ \A h \in 1..(i - 1), t \in Resources : ~LinkAt(str, h, t, 1)
        /\ src = "https://open.spotify.com/embed/" \o type \o "/"
                    \o SubSeq(str, i + Len(SpotifyPrefix) + Len(type) + 1,
                              i + Len(SpotifyPrefix) + Len(type) + n)
                    \o "?utm_source=generator&theme=0"

\* C19: the player is embedded exactly when the song field holds a link to
\* a track, album or playlist, and then with the type and id of that link;
\* every other song field gets the search link.
C19_EmbedIffLink ==
    IF IsLink(playerSong)
    THEN /\ SpotifyPlayer(playerSong).render = "embed"
         /\ EmbedOfFirstLink(playerSong, SpotifyPlayer(playerSong).src)
    ELSE SpotifyPlayer(playerSong).render = "search"

C19_Witness ==
    /\ playerSong = "listen: https://open.spotify.com/playlist/4uLU6h?si=9"
    /\ SpotifyPlayer(playerSong) =
          [render |-> "embed",
           src |-> "https://open.spotify.com/embed/playlist/4uLU6h?utm_source=generator&theme=0"]

C19_WitnessTitle ==
    /\ playerSong = "Perfect by Ed Sheeran"
    /\ SpotifyPlayer(playerSong).render = "search"

---------------------------------------------------------------------------
(* Failures of the local store *)

\* the answer of a handler whose statement threw
ServerError(op) == Response(op, 500, 0, <<>>)

CreateFailure ==
    \A body \in Bodies :
        (CreateRoute(body, FALSE) /\ ~TooShort(body.content))
            => /\ res' = ServerError("create")
               /\ UNCHANGED <<db, sqlite_sequence, issued>>

ListFailure ==
    \A tie \in {"asc", "desc"} :
        ListRoute(FALSE, tie)
            => /\ res' = ServerError("list")
               /\ UNCHANGED <<db, sqlite_sequence>>

LikeFailure ==
    \A id \in IdParams :
        LikeRoute(id, FALSE)
            => /\ res' = ServerError("like")
               /\ UNCHANGED <<db, sqlite_sequence, likesDone>>

\* C20: when the statement of a local handler (list, create, like) fails,
\* the handler answers 500 and nothing else, runs the statement no second
\* time, and the table and its rowid counter are as they were.
C20_StoreFailure == [][CreateFailure /\ ListFailure /\ LikeFailure]_vars

C20_Witness ==
    /\ req.op = "create"
    /\ ~TooShort(req.body.content)
    /\ res = ServerError("create")
    /\ Len(db) = 1
    /\ db[1].likes = 1

C20_WitnessLike ==
    /\ req = Request("like", NoBody, "1")
    /\ res = ServerError("like")
    /\ Len(db) = 1
    /\ db[1].likes = 0

---------------------------------------------------------------------------
(* The callback's failures *)

\* the exchange answers without an access token, or throws
ExchangeFails(c) ==
    \/ \E thrown \in BOOLEAN : CallbackReply(c, NoToken, thrown)
    \/ \E t \in Tokens : CallbackReply(c, t, TRUE)

FailedExchangeKeepsSession ==
    \A c \in Clients :
        ExchangeFails(c)
            => /\ session' = session
               /\ bridgeRes'[c].status \in {400, 500}

TokenStoredOnlyFromExchange ==
    session' # session
        => \E c \in Clients, t \in Tokens :
              /\ CallbackReply(c, t, FALSE)
              /\ session'[c].spotify_token = t
              /\ bridgeRes'[c].status = 200

\* C23: the callback stores a token only when the exchange answered with
\* an access token; when the exchange answers without one (400) or throws
\* (500) the session is as it was, without a token or with the token it
\* held.
C23_FailedExchange == [][FailedExchangeKeepsSession /\ TokenStoredOnlyFromExchange]_vars

C23_Witness ==
    /\ session[Caller].spotify_token = "t1"
    /\ hour < session[Caller].setAt + 24
    /\ bridgeRes[Caller] = BridgeAnswer("callback", 400, FALSE)

C23_WitnessUnauthenticated ==
    /\ session[Caller] = NoSession
    /\ bridgeRes[Caller] = BridgeAnswer("callback", 500, FALSE)

---------------------------------------------------------------------------
(* The campus mood: claims *)

MoodFailureSwallowed ==
    MoodReply("throws") => campusMood' = "Unable to sense the mood right now."

MoodFlagReset ==
    \A answer \in Summaries \cup {"", "throws"} :
        MoodReply(answer) => isAnalyzingMood /\ ~isAnalyzingMood'

EmptyListNotAsked ==
    \A constructed \in BOOLEAN :
        (analyzeMood(constructed) /\ confessions = <<>>)
            => /\ moodAsked'.requests = moodAsked.requests
               /\ UNCHANGED <<campusMood, isAnalyzingMood, moodCall>>

\* the flag is up exactly while a request is awaited
FlagWhileAwaiting == isAnalyzingMood <=> moodCall.phase = "awaiting"

\* C21: when the mood-summary call fails the summary becomes the fallback
\* string; the analysing flag is false again after the call, whether it
\* succeeded or failed; and with an empty local list no summary is asked
\* for.
C21_MoodFailure ==
    /\ []FlagWhileAwaiting
    /\ [][MoodFailureSwallowed /\ MoodFlagReset /\ EmptyListNotAsked]_vars

C21_Witness ==
    /\ Len(confessions) > 0
    /\ campusMood = MoodFallback
    /\ ~isAnalyzingMood
    /\ moodAsked = [clicks |-> 1, requests |-> 1]

C21_WitnessEmpty ==
    /\ confessions = <<>>
    /\ moodAsked = [clicks |-> 2, requests |-> 0]
    /\ campusMood = Null

---------------------------------------------------------------------------
(* Likes as the page shows them *)

\* the answer to the like request is ok
LikeAcknowledged == likeCall.phase = "responded" /\ likeCall.status \in 200..299

LikeShownWhenAcknowledged ==
    (LikeReply /\ LikeAcknowledged /\ confessions # ErrorObject)
        => /\ Len(confessions') = Len(confessions)
           /\ \A k \in 1..Len(confessions) :
                 IF confessions[k].id = likeCall.id
                 THEN /\ confessions'[k].likes = confessions[k].likes + 1
                      /\ [confessions'[k] EXCEPT !.likes = 0]
                            = [confessions[k] EXCEPT !.likes = 0]
                 ELSE confessions'[k] = confessions[k]

LikeNotShownOtherwise ==
    (LikeReply /\ ~LikeAcknowledged) => confessions' = confessions

\* the request and the server's handling of it show nothing yet
LikePendingShowsNothing ==
    ((\E id \in 1..MaxRows : handleLike(id)) \/ (\E ok \in BOOLEAN : LikeServe(ok))
        \/ LikeFetchThrows)
        => confessions' = confessions

C25_ShownNeverAhead ==
    confessions # ErrorObject
        => \A k \in 1..Len(confessions), i \in 1..Len(db) :
              confessions[k].id = db[i].id => confessions[k].likes <= db[i].likes

---------------------------------------------------------------------------
(* Outstanding external calls *)

\* the server would take and run every local request now
LocalEnabled ==
    /\ \A body \in FeedBodies, ok \in BOOLEAN :
          ENABLED (TakesRequest(Outstanding) /\ CreateRoute(body, ok))
    /\ \A ok \in BOOLEAN : ENABLED (TakesRequest(Outstanding) /\ ListRoute(ok, "asc"))
    /\ \A id \in {"1", "abc"}, ok \in BOOLEAN :
          ENABLED (TakesRequest(Outstanding) /\ LikeRoute(id, ok))

\* a step of a local handler, as it is taken when nothing is outstanding
LocalHandled ==
    \/ \E body \in FeedBodies, ok \in BOOLEAN : CreateRoute(body, ok)
    \/ \E ok \in BOOLEAN : ListRoute(ok, "asc")
    \/ \E id \in {"1", "abc"}, ok \in BOOLEAN : LikeRoute(id, ok)

\* whatever is outstanding, a change of the local store or of the last local
\* answer is the step the local handler takes from the local state alone,
\* and it touches no mirror or bridge request
LocalResultsAsAlone ==
    localVars' # localVars => LocalHandled /\ UNCHANGED <<mirrorVars, bridgeVars>>

\* C22: while any number of mirror or bridge requests wait on an external
\* service, the local create, list and like requests stay enabled and end
\* with the results they have when nothing is outstanding.
C22_StallsOnlyItsRequest ==
    /\ []LocalEnabled
    /\ [][LocalResultsAsAlone]_vars

C22_Witness ==
    /\ Outstanding = {<<"mirror", "c1">>, <<"mirror", "c2">>, <<"bridge", Caller>>}
    /\ req.op = "create"
    /\ res.status = 201
    /\ Len(db) = 2

---------------------------------------------------------------------------
(* The end of a submission *)

\* the submission's request was answered with an ok status
AnsweredOk ==
    IF submit = "supabase"
    THEN call[Caller].phase = "responded" /\ Ok(call[Caller].status)
    ELSE localCall.phase = "responded" /\ Ok(localCall.status)

\* the text fields the branch clears are empty, everything else is kept
FieldsCleared ==
    /\ newConfession' = ""
    /\ composer' = IF submit = "local"
                   THEN [composer EXCEPT !.recipient = "", !.sender = "", !.song = ""]
                   ELSE composer

\* the step that ends a submission clears the fields exactly when the
\* answer was ok
EndClearsIffOk ==
    isSubmitting /\ ~isSubmitting' =>
        IF AnsweredOk THEN FieldsCleared ELSE UNCHANGED <<newConfession, composer>>

\* no other step of a submission touches the fields
FieldsKeptWhileSubmitting ==
    isSubmitting /\ isSubmitting' => UNCHANGED <<newConfession, composer>>

C26_WitnessCleared ==
    /\ ~isSubmitting
    /\ submitted.mode = "local"
    /\ res.status = 201
    /\ newConfession = ""
    /\ composer = [FilledComposer EXCEPT !.recipient = "", !.sender = "", !.song = ""]

============================================================================
